---- MODULE Spec2Model ----
(***************************************************************************)
(* The plan execution engine of KUDO                                       *)
(* (pkg/controller/instance/plan_execution_engine.go).                     *)
(*                                                                         *)
(* One call of executePlan is one tick.  The model keeps the plan spec,    *)
(* the plan status the outer loop persists and hands back on the next      *)
(* tick, and the cluster the client talks to.  A tick is one atomic        *)
(* action; the order of what happens inside it is kept in `trace`, the     *)
(* list of render, Enhancer and cluster client calls of the last tick,     *)
(* each with the status tree as it was when the call was made.             *)
(***************************************************************************)
EXTENDS Integers, Sequences, FiniteSets, TLC

VARIABLES
    plan,        \* activePlan.Spec: the phases, steps and task references
    status,      \* activePlan.PlanStatus: the status tree (durable state)
    obj,         \* the cluster: resource -> "absent" | "unhealthy" | "healthy"
    fault,       \* the API server's failure mode, if any
    trace,       \* the calls of the last tick, in order
    result,      \* what the last tick returned besides the status
    input,       \* the status tree as it was when the last tick started
    caller,      \* the caller's plan.PlanStatus object as the last tick left it
    lastAction,  \* "init" | "tick" | "retick" (a tick right after a tick) | "env" | "edit"
    edits        \* how many times the operator version was edited

vars == <<plan, status, obj, fault, trace, result, input, caller, lastAction, edits>>

(***************************************************************************)
(* Bounds of the model.                                                    *)
(***************************************************************************)
\* Edits of the operator version while the plan is active.
MaxEdits == 1

(***************************************************************************)
(* v1alpha1.ExecutionStatus                                                *)
(***************************************************************************)
ExecutionPending == "PENDING"
ExecutionInProgress == "IN_PROGRESS"
ExecutionComplete == "COMPLETE"
ErrorStatus == "ERROR"
ExecutionFatalError == "FATAL_ERROR"

Serial == "serial"
Parallel == "parallel"

isFinished(state) == state = ExecutionComplete

\* Mutant: a Complete node counts as work that remains.
isInProgressAlsoComplete(state) == state # ExecutionFatalError

isInProgress(state) ==
    state = ExecutionInProgress \/ state = ExecutionPending \/ state = ErrorStatus

\* v1alpha1.ExecutionStatus.IsTerminal
IsTerminal(state) == state = ExecutionComplete \/ state = ExecutionFatalError

(***************************************************************************)
(* The operator version: its templates and its tasks.  A template is       *)
(* described by what the collaborators do with it: whether the template    *)
(* engine renders it, whether the Enhancer accepts the rendered YAML,      *)
(* whether the object is a custom resource (the API server answers a       *)
(* strategic merge patch with 415), and what the health oracle says of     *)
(* the rendered object before the cluster has ever seen it.                *)
(***************************************************************************)
Template(renders, valid, crd, localHealthy) ==
    [renders |-> renders, valid |-> valid, crd |-> crd, localHealthy |-> localHealthy]

Templates ==
    ( "deployment.yaml" :> Template(TRUE, TRUE, FALSE, FALSE) ) @@
    ( "service.yaml"    :> Template(TRUE, TRUE, FALSE, TRUE) ) @@
    ( "instance.yaml"   :> Template(TRUE, TRUE, TRUE, FALSE) ) @@
    ( "configmap.yaml"  :> Template(TRUE, TRUE, FALSE, TRUE) ) @@
    ( "bad.yaml"        :> Template(FALSE, TRUE, FALSE, FALSE) ) @@
    ( "invalid.yaml"    :> Template(TRUE, FALSE, FALSE, FALSE) )

Tasks ==
    ( "app"       :> [Resources |-> <<"deployment.yaml", "service.yaml">>] ) @@
    ( "cr"        :> [Resources |-> <<"instance.yaml">>] ) @@
    ( "cfg"       :> [Resources |-> <<"configmap.yaml">>] ) @@
    ( "web"       :> [Resources |-> <<"deployment.yaml">>] ) @@
    ( "dangling"  :> [Resources |-> <<"missing.yaml">>] ) @@
    ( "broken"    :> [Resources |-> <<"bad.yaml">>] ) @@
    ( "malformed" :> [Resources |-> <<"invalid.yaml">>] )

\* Task references an edit of the operator version can leave in a step:
\* a task that is not in the catalog, and tasks whose template is missing,
\* does not render, or is not accepted by the Enhancer.
DefectiveTasks == {"nosuch", "dangling", "broken", "malformed"}

\* The objects the plans below can put into the cluster.
Resources == {"deployment.yaml", "service.yaml", "instance.yaml", "configmap.yaml"}

Step(name, delete, tasks) == [Name |-> name, Delete |-> delete, Tasks |-> tasks]
Phase(name, strategy, steps) == [Name |-> name, Strategy |-> strategy, Steps |-> steps]

\* The plan of one Serial phase with one step that creates a Deployment.
SinglePlan ==
    [Name |-> "deploy",
     Phases |-> << Phase("main", Serial, << Step("srv", FALSE, <<"web">>) >>) >>]

\* The plans: the plan of one step, and the plans of a phase of two steps,
\* Serial or Parallel, followed by a phase of one step with the other
\* strategy; the first step, of two objects, creates or deletes.
Other(strategy) == IF strategy = Serial THEN Parallel ELSE Serial

Plans ==
    {SinglePlan} \cup
    { [Name |-> "deploy",
       Phases |-> << Phase("first", s,
                           << Step("one", d, <<"app">>),
                              Step("two", FALSE, <<"cr">>) >>),
                     Phase("second", Other(s),
                           << Step("three", FALSE, <<"cfg">>) >>) >>]
      : s \in {Serial, Parallel}, d \in BOOLEAN }

\* The status tree the outer loop creates when the plan is triggered.
PendingStatus(spec) ==
    [Name |-> spec.Name,
     Status |-> ExecutionPending,
     Phases |-> [i \in 1..Len(spec.Phases) |->
                   [Name |-> spec.Phases[i].Name,
                    Status |-> ExecutionPending,
                    Steps |-> [j \in 1..Len(spec.Phases[i].Steps) |->
                                 [Name |-> spec.Phases[i].Steps[j].Name,
                                  Status |-> ExecutionPending]]]]]

(***************************************************************************)
(* The status tree.  A *PhaseStatus or *StepStatus of the code is an       *)
(* index into the tree; 0 is the nil pointer.                              *)
(*                                                                         *)
(* A call is made once and what it returned is a value:                    *)
(* The({e : x \in {v}}) is e with x standing for the value of v.           *)
(***************************************************************************)
\* The element of a set of one element.
The(S) == CHOOSE v \in S : TRUE

Lowest(S) == CHOOSE i \in S : \A j \in S : i <= j

\* for i, p := range status.Phases { if p.Name == phaseName { return i } }
firstNamed(nodes, name) ==
    The({ IF hits = {} THEN 0 ELSE Lowest(hits)
          : hits \in { {i \in 1..Len(ns) : ns[i].Name = name} : ns \in {nodes} } })

getPhaseFromStatus(phaseName, st) == firstNamed(st.Phases, phaseName)

getStepFromStatus(stepName, phaseStatus) == firstNamed(phaseStatus.Steps, stepName)

setPlanStatus(st, v) == [st EXCEPT !.Status = v]
setPhaseStatus(st, pIdx, v) == [st EXCEPT !.Phases[pIdx].Status = v]
setStepStatus(st, pIdx, sIdx, v) == [st EXCEPT !.Phases[pIdx].Steps[sIdx].Status = v]

\* One entry of the trace of a tick.
Event(op, ph, stp, res, out, snap) ==
    [op |-> op, ph |-> ph, stp |-> stp, res |-> res, out |-> out, snap |-> snap,
     held |-> "none"]

\* A health check: on which object the oracle was asked, and its answer
\* ("ok", "unhealthy" or "error").
HealthEvent(ph, stp, res, held, answer, snap) ==
    [op |-> "health", ph |-> ph, stp |-> stp, res |-> res,
     out |-> answer, snap |-> snap, held |-> held]

PrepareOps == {"render", "enhance"}
ClientOps == {"get", "create", "patch", "mergepatch", "delete", "health"}

(***************************************************************************)
(* The Enhancer (kustomizeEnhancer.applyConventionsToTemplates): it fails  *)
(* when one of the rendered templates of the group is not valid YAML for   *)
(* kustomize, and otherwise emits one object per template.                 *)
(***************************************************************************)
applyConventionsToTemplates(keys) ==
    IF \A i \in 1..Len(keys) : Templates[keys[i]].valid
    THEN [ok |-> TRUE, objs |-> keys]
    ELSE [ok |-> FALSE, objs |-> <<>>]

(***************************************************************************)
(* prepareKubeResources                                                    *)
(***************************************************************************)
\* Mutant: a missing template is marked like a missing task.
preparerStatusRecoverable(kind) ==
    IF kind = "renderError" THEN ExecutionFatalError ELSE ErrorStatus

\* The status the Preparer writes on the phase and the step of a failure.
preparerStatus(kind) ==
    CASE kind = "renderError"     -> ExecutionFatalError
      [] kind = "missingTemplate" -> ExecutionFatalError
      [] kind = "enhanceError"    -> ErrorStatus
      [] kind = "missingTask"     -> ErrorStatus

\* The error the Preparer returns: &executionError{err, fatal, nil}.
executionError(fatal) == [type |-> "executionError", fatal |-> fatal]

nil == [type |-> "nil", fatal |-> FALSE]

preparerError(kind) ==
    CASE kind = "renderError"     -> executionError(TRUE)
      [] kind = "missingTemplate" -> executionError(TRUE)
      [] kind = "enhanceError"    -> executionError(FALSE)
      [] kind = "missingTask"     -> executionError(FALSE)

\* for _, res := range taskSpec.Resources: look the template up and render it.
RECURSIVE renderResources(_, _, _, _, _)
renderResources(keys, i, ph, stp, snap) ==
    IF i > Len(keys) THEN [kind |-> "ok", events |-> <<>>]
    ELSE IF keys[i] \notin DOMAIN Templates
    THEN [kind |-> "missingTemplate", events |-> <<>>]
    ELSE IF ~Templates[keys[i]].renders
    THEN [kind |-> "renderError",
          events |-> <<Event("render", ph, stp, keys[i], "error", snap)>>]
    ELSE The({ [kind |-> rest.kind,
                events |-> <<Event("render", ph, stp, keys[i], "ok", snap)>>
                               \o rest.events]
               : rest \in {renderResources(keys, i + 1, ph, stp, snap)} })

\* for _, t := range step.Tasks: render the task's templates, then one
\* Enhancer call for the task.
RECURSIVE prepareTasks(_, _, _, _, _)
prepareTasks(tasks, i, ph, stp, snap) ==
    IF i > Len(tasks) THEN [kind |-> "ok", objs |-> <<>>, events |-> <<>>]
    ELSE IF tasks[i] \notin DOMAIN Tasks
    THEN [kind |-> "missingTask", objs |-> <<>>, events |-> <<>>]
    ELSE The({
        IF r.kind # "ok"
        THEN [kind |-> r.kind, objs |-> <<>>, events |-> r.events]
        ELSE The({
            IF ~e.ok
            THEN [kind |-> "enhanceError", objs |-> <<>>,
                  events |-> r.events \o
                      <<Event("enhance", ph, stp, tasks[i], "error", snap)>>]
            ELSE The({ [kind |-> rest.kind,
                        objs |-> e.objs \o rest.objs,
                        events |-> r.events \o
                            <<Event("enhance", ph, stp, tasks[i], "ok", snap)>> \o
                            rest.events]
                       : rest \in {prepareTasks(tasks, i + 1, ph, stp, snap)} })
            : e \in {applyConventionsToTemplates(Tasks[tasks[i]].Resources)} })
        : r \in {renderResources(Tasks[tasks[i]].Resources, 1, ph, stp, snap)} })

\* The walk over the phases and the steps of the plan.  On a failure the
\* phase and the step are marked in the status tree and nothing is returned
\* but the executionError.
RECURSIVE prepareWalk(_, _, _, _, _, _)
prepareWalk(spec, st, pi, si, resources, events) ==
    IF pi > Len(spec.Phases)
    THEN [ok |-> TRUE, kind |-> "ok", err |-> nil, st |-> st,
          resources |-> resources, events |-> events]
    ELSE IF si > Len(spec.Phases[pi].Steps)
    THEN prepareWalk(spec, st, pi + 1, 1, resources, events)
    ELSE The({
        IF t.kind = "ok"
        THEN prepareWalk(spec, st, pi, si + 1,
                         (<<phase.Name, step.Name>> :> t.objs) @@ resources,
                         events \o t.events)
        ELSE [ok |-> FALSE, kind |-> t.kind, err |-> preparerError(t.kind),
              st |-> setStepStatus(
                         setPhaseStatus(st, pIdx, preparerStatus(t.kind)),
                         pIdx, sIdx, preparerStatus(t.kind)),
              resources |-> <<>>,
              events |-> events \o t.events]
        : phase \in {spec.Phases[pi]},
          step \in {spec.Phases[pi].Steps[si]},
          pIdx \in {getPhaseFromStatus(spec.Phases[pi].Name, st)},
          sIdx \in {getStepFromStatus(
                        spec.Phases[pi].Steps[si].Name,
                        st.Phases[getPhaseFromStatus(spec.Phases[pi].Name, st)])},
          t \in {prepareTasks(spec.Phases[pi].Steps[si].Tasks, 1,
                              spec.Phases[pi].Name, spec.Phases[pi].Steps[si].Name,
                              st)} })

\* Mutant: only the first phase is prepared.
prepareFirstPhaseOnly(spec, st) ==
    prepareWalk([spec EXCEPT !.Phases = SubSeq(@, 1, 1)], st, 1, 1, <<>>, <<>>)

prepareKubeResources(spec, st) == prepareWalk(spec, st, 1, 1, <<>>, <<>>)

(***************************************************************************)
(* The cluster behind client.Client.  An object is absent, present and     *)
(* not healthy, or present and healthy.  A fault is a failure mode of the  *)
(* API server for one object: "read" fails its Get, "write" fails its      *)
(* Create and its patches, "delete" fails its Delete, each with an error   *)
(* that is neither NotFound nor UnsupportedMediaType; "health" makes the   *)
(* health oracle fail to find out whether the object is healthy.           *)
(***************************************************************************)
FaultKinds == {"read", "write", "delete", "health"}
NoFault == [res |-> "none", kind |-> "none"]
Faults == {NoFault} \cup [res : Resources, kind : FaultKinds]

fails(c, r, kind) == c.fault = [res |-> r, kind |-> kind]

clientGet(c, r) ==
    IF fails(c, r, "read") THEN "error"
    ELSE IF c.obj[r] = "absent" THEN "notFound"
    ELSE "ok"

\* The API server stores the object it is sent: its health is, until the
\* cluster acts on it, that of the rendered object.
clientCreate(c, r) ==
    IF fails(c, r, "write") \/ c.obj[r] # "absent"
    THEN [out |-> "error", c |-> c]
    ELSE [out |-> "ok",
          c |-> [c EXCEPT !.obj[r] =
                    IF Templates[r].localHealthy THEN "healthy" ELSE "unhealthy"]]

clientPatch(c, r, patchType) ==
    IF c.obj[r] = "absent" THEN "error"
    ELSE IF patchType = "strategic" /\ Templates[r].crd THEN "unsupportedMediaType"
    ELSE IF fails(c, r, "write") THEN "error"
    ELSE "ok"

clientDelete(c, r) ==
    IF fails(c, r, "delete") THEN [out |-> "error", c |-> c]
    ELSE IF c.obj[r] = "absent" THEN [out |-> "notFound", c |-> c]
    ELSE [out |-> "ok", c |-> [c EXCEPT !.obj[r] = "absent"]]

\* health.IsHealthy on the object the caller holds: the rendered copy, or
\* the object as the cluster returned it.  Its result is an error value:
\* nil ("ok"), an error that says the object is not healthy yet
\* ("unhealthy"), or the error of a check that could not be made ("error").
IsHealthy(c, r, held) ==
    IF fails(c, r, "health") THEN "error"
    ELSE IF held = "rendered"
    THEN IF Templates[r].localHealthy THEN "ok" ELSE "unhealthy"
    ELSE IF c.obj[r] = "healthy" THEN "ok" ELSE "unhealthy"

(***************************************************************************)
(* patchExistingObject: a strategic merge patch, and a merge patch when    *)
(* the answer is UnsupportedMediaType.                                     *)
(*                                                                         *)
(* From here on an operator that needs the result of a call more than once *)
(* hands it to a second operator (after...), which is the code that        *)
(* follows the call, and takes what the call returned as a value.          *)
(***************************************************************************)
\* if apierrors.IsUnsupportedMediaType(err) { err = c.Patch(..., MergePatchType, ...) }
afterMergePatch(firstEv, r, ph, stp, snap, returned) ==
    The({
        [err |-> second # "ok",
         events |-> <<firstEv, Event("mergepatch", ph, stp, r, second, snap)>>]
        : second \in {returned} })

\* Mutant: an UnsupportedMediaType answer is returned like any other error.
afterStrategicPatchNoRetry(c, r, ph, stp, snap, returned) ==
    The({
        [err |-> first # "ok", events |-> <<Event("patch", ph, stp, r, first, snap)>>]
        : first \in {returned} })

afterStrategicPatch(c, r, ph, stp, snap, returned) ==
    The({
        IF first = "ok"
        THEN [err |-> FALSE, events |-> <<Event("patch", ph, stp, r, first, snap)>>]
        ELSE IF first = "unsupportedMediaType"
        THEN afterMergePatch(Event("patch", ph, stp, r, first, snap), r, ph, stp, snap,
                             clientPatch(c, r, "merge"))
        ELSE [err |-> TRUE, events |-> <<Event("patch", ph, stp, r, first, snap)>>]
        : first \in {returned} })

patchExistingObject(c, r, ph, stp, snap) ==
    afterStrategicPatch(c, r, ph, stp, snap, clientPatch(c, r, "strategic"))

(***************************************************************************)
(* executeStep                                                             *)
(***************************************************************************)
\* existingResource after the Get: the copy of the rendered object when the
\* object was not found, else what the cluster returned.
existingResource(getOut) == IF getOut = "notFound" THEN "rendered" ELSE "fetched"

\* Mutant: the health oracle is asked only for an object the tick created.
healthVerdictCreatedOnly(c, r, held) ==
    held = "fetched" \/ IsHealthy(c, r, held) = "ok"

\* err = health.IsHealthy(c, existingResource); if err != nil { allHealthy = false }
\* The verdict is whether err is nil.
healthVerdict(c, r, held) == IsHealthy(c, r, held) = "ok"

\* The health check that ends the handling of a resource that was applied.
checkHealth(c, r, ph, stp, snap, held, events, returned) ==
    The({
        [err |-> FALSE, c |-> c, healthy |-> healthy,
         events |-> events \o
             <<HealthEvent(ph, stp, r, held, IsHealthy(c, r, held), snap)>>]
        : healthy \in {returned} })

\* err = c.Create(context.TODO(), r)
afterCreate(r, ph, stp, snap, got, events, returned) ==
    The({
        IF made.out # "ok"
        THEN [err |-> TRUE, c |-> made.c, healthy |-> FALSE,
              events |-> events \o <<Event("create", ph, stp, r, made.out, snap)>>]
        ELSE checkHealth(made.c, r, ph, stp, snap, existingResource(got),
                         events \o <<Event("create", ph, stp, r, made.out, snap)>>,
                         healthVerdict(made.c, r, existingResource(got)))
        : made \in {returned} })

\* err := patchExistingObject(r, existingResource, c)
afterPatch(c, r, ph, stp, snap, got, events, returned) ==
    The({
        IF p.err
        THEN [err |-> TRUE, c |-> c, healthy |-> FALSE, events |-> events \o p.events]
        ELSE checkHealth(c, r, ph, stp, snap, existingResource(got),
                         events \o p.events,
                         healthVerdict(c, r, existingResource(got)))
        : p \in {returned} })

\* Mutant: an object that was found and is healthy is left as it is, without
\* a patch.
afterGetSkipsHealthy(c, r, ph, stp, snap, returned) ==
    The({
        IF got = "notFound"
        THEN afterCreate(r, ph, stp, snap, got,
                         <<Event("get", ph, stp, r, got, snap)>>, clientCreate(c, r))
        ELSE IF got = "error"
        THEN [err |-> TRUE, c |-> c, healthy |-> FALSE,
              events |-> <<Event("get", ph, stp, r, got, snap)>>]
        ELSE IF c.obj[r] = "healthy"
        THEN checkHealth(c, r, ph, stp, snap, existingResource(got),
                         <<Event("get", ph, stp, r, got, snap)>>,
                         healthVerdict(c, r, existingResource(got)))
        ELSE afterPatch(c, r, ph, stp, snap, got,
                        <<Event("get", ph, stp, r, got, snap)>>,
                        patchExistingObject(c, r, ph, stp, snap))
        : got \in {returned} })

\* err := c.Get(context.TODO(), key, existingResource)
afterGet(c, r, ph, stp, snap, returned) ==
    The({
        IF got = "notFound"
        THEN afterCreate(r, ph, stp, snap, got,
                         <<Event("get", ph, stp, r, got, snap)>>, clientCreate(c, r))
        ELSE IF got = "error"
        THEN [err |-> TRUE, c |-> c, healthy |-> FALSE,
              events |-> <<Event("get", ph, stp, r, got, snap)>>]
        ELSE afterPatch(c, r, ph, stp, snap, got,
                        <<Event("get", ph, stp, r, got, snap)>>,
                        patchExistingObject(c, r, ph, stp, snap))
        : got \in {returned} })

\* One resource of a step that creates or updates.
applyResource(c, r, ph, stp, snap) == afterGet(c, r, ph, stp, snap, clientGet(c, r))

\* Mutant: a NotFound answer to the delete is returned as an error.
afterDeleteNotFoundFails(r, ph, stp, snap, returned) ==
    The({
        [err |-> d.out # "ok", c |-> d.c, healthy |-> TRUE,
         events |-> <<Event("delete", ph, stp, r, d.out, snap)>>]
        : d \in {returned} })

\* err := c.Delete(...); if !apierrors.IsNotFound(err) && err != nil { return err }
afterDelete(r, ph, stp, snap, returned) ==
    The({
        [err |-> d.out = "error", c |-> d.c, healthy |-> TRUE,
         events |-> <<Event("delete", ph, stp, r, d.out, snap)>>]
        : d \in {returned} })

\* One resource of a step that deletes.
deleteResource(c, r, ph, stp, snap) == afterDelete(r, ph, stp, snap, clientDelete(c, r))

\* for _, r := range resources
RECURSIVE executeResources(_, _, _, _, _, _, _, _)
RECURSIVE afterResource(_, _, _, _, _, _, _, _)
executeResources(step, resources, i, c, ph, snap, allHealthy, events) ==
    IF i > Len(resources)
    THEN [err |-> FALSE, c |-> c, allHealthy |-> allHealthy, events |-> events]
    ELSE afterResource(step, resources, i, ph, snap, allHealthy, events,
                       IF step.Delete
                       THEN deleteResource(c, resources[i], ph, step.Name, snap)
                       ELSE applyResource(c, resources[i], ph, step.Name, snap))

\* Mutant: the loop over the resources ends at the first one that is not
\* healthy.
afterResourceStopsAtUnhealthy(step, resources, i, ph, snap, allHealthy, events, returned) ==
    The({
        IF x.err
        THEN [err |-> TRUE, c |-> x.c, allHealthy |-> allHealthy,
              events |-> events \o x.events]
        ELSE IF ~x.healthy
        THEN [err |-> FALSE, c |-> x.c, allHealthy |-> FALSE,
              events |-> events \o x.events]
        ELSE executeResources(step, resources, i + 1, x.c, ph, snap,
                              allHealthy, events \o x.events)
        : x \in {returned} })

afterResource(step, resources, i, ph, snap, allHealthy, events, returned) ==
    The({
        IF x.err
        THEN [err |-> TRUE, c |-> x.c, allHealthy |-> allHealthy,
              events |-> events \o x.events]
        ELSE executeResources(step, resources, i + 1, x.c, ph, snap,
                              allHealthy /\ x.healthy, events \o x.events)
        : x \in {returned} })

\* if allHealthy { state.Status = v1alpha1.ExecutionComplete }
afterResources(entered, pIdx, sIdx, returned) ==
    The({
        IF x.err
        THEN [err |-> TRUE, st |-> entered, c |-> x.c, events |-> x.events]
        ELSE [err |-> FALSE, c |-> x.c, events |-> x.events,
              st |-> IF x.allHealthy
                     THEN setStepStatus(entered, pIdx, sIdx, ExecutionComplete)
                     ELSE entered]
        : x \in {returned} })

\* state is the step (pIdx, sIdx) of the status tree st.
executeStep(step, st, pIdx, sIdx, resources, c) ==
    IF isInProgress(st.Phases[pIdx].Steps[sIdx].Status)
    THEN The({ afterResources(
                   entered, pIdx, sIdx,
                   executeResources(step, resources, 1, c, entered.Phases[pIdx].Name,
                                    entered, TRUE, <<>>))
               : entered \in {setStepStatus(st, pIdx, sIdx, ExecutionInProgress)} })
    ELSE [err |-> FALSE, st |-> st, c |-> c, events |-> <<>>]

(***************************************************************************)
(* executePlan                                                             *)
(***************************************************************************)
\* Mutant: only a Complete plan is left alone.
planIsTerminalOnlyComplete(st) == st.Status = ExecutionComplete

\* if plan.Status.IsTerminal() { return plan.PlanStatus, nil }
planIsTerminal(st) == IsTerminal(st.Status)

\* var exErr *executionError; errors.As(err, &exErr): true of every error
\* that is an *executionError, whatever its fatal flag says.
errorsAsExecutionError(err) == err.type = "executionError"

statusOnPrepareError(err) ==
    IF errorsAsExecutionError(err) THEN ExecutionFatalError ELSE ErrorStatus

\* if err != nil { ...; return newState, err }
prepareFailed(p) == ~p.ok

\* planResources.PhaseResources[ph.Name].StepResources[st.Name]: a key that
\* is not in a Go map yields the nil slice.
stepResources(resources, phaseName, stepName) ==
    IF <<phaseName, stepName>> \in DOMAIN resources
    THEN resources[<<phaseName, stepName>>]
    ELSE <<>>

\* Mutant: the comparison with the strategy is inverted.
stopAtUnfinishedStepInverted(strategy) == strategy = Parallel

\* Mutant: the loop over the steps always ends at an unfinished step.
stopAtUnfinishedStepAlways(strategy) == strategy \in {Serial, Parallel}

\* if ph.Strategy == v1alpha1.Serial { break }
stopAtUnfinishedStep(strategy) == strategy = Serial

\* Mutant: the loop over the phases goes on past an unfinished phase.
stopAtPhaseNever(phaseStatus) == phaseStatus = "no such status"

\* if !isFinished(currentPhaseState.Status) { allPhasesCompleted = false; break }
stopAtPhase(phaseStatus) == ~isFinished(phaseStatus)

\* Mutant: the phase is marked Complete whenever the loop over its steps ends.
phaseAfterStepsAlways(st, pIdx, allStepsHealthy) ==
    setPhaseStatus(st, pIdx, ExecutionComplete)

\* if allStepsHealthy { currentPhaseState.Status = ExecutionComplete }
phaseAfterSteps(st, pIdx, allStepsHealthy) ==
    IF allStepsHealthy THEN setPhaseStatus(st, pIdx, ExecutionComplete) ELSE st

\* Mutant: a failing client call is marked like an authoring error.
stepFailedFatal(st, pIdx, sIdx) ==
    setStepStatus(setPhaseStatus(st, pIdx, ExecutionFatalError),
                  pIdx, sIdx, ExecutionFatalError)

\* currentPhaseState.Status = ErrorStatus; currentStepState.Status = ErrorStatus
stepFailed(st, pIdx, sIdx) ==
    setStepStatus(setPhaseStatus(st, pIdx, ErrorStatus), pIdx, sIdx, ErrorStatus)

\* for _, st := range ph.Steps
RECURSIVE executeSteps(_, _, _, _, _, _, _, _)
RECURSIVE afterStep(_, _, _, _, _, _, _, _)
executeSteps(phase, pIdx, resources, si, st, c, allStepsHealthy, events) ==
    IF si > Len(phase.Steps)
    THEN [err |-> FALSE, st |-> st, c |-> c, allStepsHealthy |-> allStepsHealthy,
          events |-> events]
    ELSE The({ afterStep(phase, pIdx, resources, si, currentStepState,
                         allStepsHealthy, events,
                         executeStep(phase.Steps[si], st, pIdx, currentStepState,
                                     stepResources(resources, phase.Name,
                                                   phase.Steps[si].Name),
                                     c))
               : currentStepState \in
                     {getStepFromStatus(phase.Steps[si].Name, st.Phases[pIdx])} })

\* Mutant: after a step that returned an error the loop goes on to the next
\* step.
afterStepContinuesAfterError(phase, pIdx, resources, si, sIdx, allStepsHealthy, events, returned) ==
    The({
        IF x.err
        THEN executeSteps(phase, pIdx, resources, si + 1,
                          stepFailed(x.st, pIdx, sIdx), x.c, FALSE,
                          events \o x.events)
        ELSE IF ~isFinished(x.st.Phases[pIdx].Steps[sIdx].Status)
        THEN IF stopAtUnfinishedStep(phase.Strategy)
             THEN [err |-> FALSE, st |-> x.st, c |-> x.c,
                   allStepsHealthy |-> FALSE, events |-> events \o x.events]
             ELSE executeSteps(phase, pIdx, resources, si + 1, x.st, x.c,
                               FALSE, events \o x.events)
        ELSE executeSteps(phase, pIdx, resources, si + 1, x.st, x.c,
                          allStepsHealthy, events \o x.events)
        : x \in {returned} })

\* What follows err := executeStep(st, currentStepState, resources, c).
afterStep(phase, pIdx, resources, si, sIdx, allStepsHealthy, events, returned) ==
    The({
        IF x.err
        THEN [err |-> TRUE, c |-> x.c, allStepsHealthy |-> allStepsHealthy,
              events |-> events \o x.events,
              st |-> stepFailed(x.st, pIdx, sIdx)]
        ELSE IF ~isFinished(x.st.Phases[pIdx].Steps[sIdx].Status)
        THEN IF stopAtUnfinishedStep(phase.Strategy)
             THEN [err |-> FALSE, st |-> x.st, c |-> x.c,
                   allStepsHealthy |-> FALSE, events |-> events \o x.events]
             ELSE executeSteps(phase, pIdx, resources, si + 1, x.st, x.c,
                               FALSE, events \o x.events)
        ELSE executeSteps(phase, pIdx, resources, si + 1, x.st, x.c,
                          allStepsHealthy, events \o x.events)
        : x \in {returned} })

\* What follows the loop over the steps of a phase.
afterSteps(pIdx, returned) ==
    The({
        IF x.err
        THEN [err |-> TRUE, st |-> x.st, c |-> x.c, events |-> x.events]
        ELSE [err |-> FALSE, c |-> x.c, events |-> x.events,
              st |-> phaseAfterSteps(x.st, pIdx, x.allStepsHealthy)]
        : x \in {returned} })

\* The body of the loop over the phases, up to the check that ends the loop.
executePhase(phase, pIdx, resources, st, c) ==
    IF isFinished(st.Phases[pIdx].Status)
    THEN [err |-> FALSE, st |-> st, c |-> c, events |-> <<>>]
    ELSE IF isInProgress(st.Phases[pIdx].Status)
    THEN The({ afterSteps(pIdx,
                          executeSteps(phase, pIdx, resources, 1, entered,
                                       c, TRUE, <<>>))
               : entered \in
                     {setPhaseStatus(setPlanStatus(st, ExecutionInProgress),
                                     pIdx, ExecutionInProgress)} })
    ELSE [err |-> FALSE, st |-> st, c |-> c, events |-> <<>>]

\* for _, ph := range plan.Spec.Phases
RECURSIVE executePhases(_, _, _, _, _, _)
RECURSIVE afterPhase(_, _, _, _, _, _)
executePhases(spec, resources, pi, st, c, events) ==
    IF pi > Len(spec.Phases)
    THEN [err |-> FALSE, st |-> st, c |-> c, allPhasesCompleted |-> TRUE,
          events |-> events]
    ELSE The({ afterPhase(spec, resources, pi, currentPhaseState, events,
                          executePhase(spec.Phases[pi], currentPhaseState,
                                       resources, st, c))
               : currentPhaseState \in
                     {getPhaseFromStatus(spec.Phases[pi].Name, st)} })

\* Mutant: only an error ends the loop over the phases; an unfinished phase
\* does not.
afterPhaseStopsOnlyOnError(spec, resources, pi, pIdx, events, returned) ==
    The({
        IF x.err
        THEN [err |-> TRUE, st |-> x.st, c |-> x.c, allPhasesCompleted |-> FALSE,
              events |-> events \o x.events]
        ELSE executePhases(spec, resources, pi + 1, x.st, x.c, events \o x.events)
        : x \in {returned} })

\* What follows the body of the loop for one phase.
afterPhase(spec, resources, pi, pIdx, events, returned) ==
    The({
        IF x.err
        THEN [err |-> TRUE, st |-> x.st, c |-> x.c, allPhasesCompleted |-> FALSE,
              events |-> events \o x.events]
        ELSE IF stopAtPhase(x.st.Phases[pIdx].Status)
        THEN [err |-> FALSE, st |-> x.st, c |-> x.c, allPhasesCompleted |-> FALSE,
              events |-> events \o x.events]
        ELSE executePhases(spec, resources, pi + 1, x.st, x.c, events \o x.events)
        : x \in {returned} })

\* Mutant: the top-level status is never set to Complete.
afterPhasesNeverComplete(returned) ==
    The({
        [err |-> x.err, prepared |-> "ok", fatal |-> FALSE, c |-> x.c,
         events |-> x.events, st |-> x.st]
        : x \in {returned} })

\* if allPhasesCompleted { newState.Status = v1alpha1.ExecutionComplete }
afterPhases(returned) ==
    The({
        [err |-> x.err, prepared |-> "ok", fatal |-> FALSE, c |-> x.c,
         events |-> x.events,
         st |-> IF ~x.err /\ x.allPhasesCompleted
                THEN setPlanStatus(x.st, ExecutionComplete)
                ELSE x.st]
        : x \in {returned} })

\* What follows planResources, err := prepareKubeResources(plan, metadata, renderer).
afterPrepare(spec, c, returned) ==
    The({
        IF prepareFailed(p)
        THEN [err |-> TRUE, prepared |-> p.kind, fatal |-> p.err.fatal, c |-> c,
              st |-> setPlanStatus(p.st, statusOnPrepareError(p.err)),
              events |-> p.events]
        ELSE afterPhases(executePhases(spec, p.resources, 1, p.st, c, p.events))
        : p \in {returned} })

\* One tick.  st is what plan.PlanStatus points to; the st of the result is
\* what the returned pointer points to.
executePlan(spec, st, c) ==
    IF planIsTerminal(st)
    THEN [err |-> FALSE, prepared |-> "skipped", fatal |-> FALSE, st |-> st, c |-> c,
          events |-> <<>>]
    ELSE afterPrepare(spec, c, prepareKubeResources(spec, st))

(***************************************************************************)
(* Pointers to plan status objects.  The caller hands its object in as     *)
(* plan.PlanStatus and gets a pointer back.                                *)
(***************************************************************************)
PlanStatusPtr == "plan.PlanStatus"

\* newState := &(*plan.PlanStatus): the address of what a pointer points to
\* is that pointer, so newState and plan.PlanStatus are one object.
newState(ptr) == ptr

\* The objects after a tick: the caller's object held `before` when the tick
\* started, and every write of the tick went through newState, whose object
\* holds `returned` at the end.
heapAfter(before, returned) ==
    (newState(PlanStatusPtr) :> returned) @@ (PlanStatusPtr :> before)

(***************************************************************************)
(* The state machine: the outer loop calls executePlan again and again on  *)
(* the status it got back; between ticks the cluster moves and the         *)
(* operator version may be edited.                                         *)
(***************************************************************************)
NoResult == [err |-> FALSE, prepared |-> "none", fatal |-> FALSE]

Init ==
    /\ plan \in Plans
    /\ status = PendingStatus(plan)
    /\ obj \in [Resources -> {"absent", "unhealthy"}]
    /\ fault = NoFault
    /\ trace = <<>>
    /\ result = NoResult
    /\ input = status
    /\ caller = status
    /\ lastAction = "init"
    /\ edits = 0

Tick ==
    /\ lastAction' = IF lastAction \in {"tick", "retick"} THEN "retick" ELSE "tick"
    /\ input' = status
    /\ UNCHANGED <<plan, fault, edits>>
    /\ \E r \in {executePlan(plan, status, [obj |-> obj, fault |-> fault])} :
          /\ status' = r.st
          /\ obj' = r.c.obj
          /\ trace' = r.events
          /\ result' = [err |-> r.err, prepared |-> r.prepared, fatal |-> r.fatal]
          /\ caller' = heapAfter(status, r.st)[PlanStatusPtr]

\* What every step of the environment does to the record of the last tick.
Forget ==
    /\ trace' = <<>>
    /\ result' = NoResult
    /\ input' = status
    /\ caller' = status

\* The cluster brings an object up.
BecomeHealthy(r) ==
    /\ edits = 0
    /\ obj[r] = "unhealthy"
    /\ obj' = [obj EXCEPT ![r] = "healthy"]
    /\ lastAction' = "env"
    /\ Forget
    /\ UNCHANGED <<plan, status, fault, edits>>

\* The API server starts to fail, or recovers.
SetFault(f) ==
    /\ edits = 0
    /\ f # fault
    /\ fault' = f
    /\ lastAction' = "env"
    /\ Forget
    /\ UNCHANGED <<plan, status, obj, edits>>

\* A new operator version leaves a defective task reference in a step.  The
\* Preparer meets it in the next tick before any client call is made, so
\* what the cluster does around an edit cannot change what follows: the
\* edit is taken before the first tick or right after one, and the cluster
\* is left alone from then on.
EditSpec(pi, si, t) ==
    /\ edits < MaxEdits
    /\ fault = NoFault
    /\ lastAction # "env"
    /\ edits' = edits + 1
    /\ plan' = [plan EXCEPT !.Phases[pi].Steps[si].Tasks = Append(@, t)]
    /\ lastAction' = "edit"
    /\ Forget
    /\ UNCHANGED <<status, obj, fault>>

\* A later operator version takes the defective task reference out again,
\* after a tick has met it.
RepairSpec(pi, si) ==
    /\ lastAction \in {"tick", "retick"}
    /\ Len(plan.Phases[pi].Steps[si].Tasks) > 1
    /\ plan.Phases[pi].Steps[si].Tasks[Len(plan.Phases[pi].Steps[si].Tasks)]
          \in DefectiveTasks
    /\ plan' = [plan EXCEPT !.Phases[pi].Steps[si].Tasks = SubSeq(@, 1, Len(@) - 1)]
    /\ lastAction' = "edit"
    /\ Forget
    /\ UNCHANGED <<status, obj, fault, edits>>

Next ==
    \/ Tick
    \/ \E r \in Resources : BecomeHealthy(r)
    \/ \E f \in Faults : SetFault(f)
    \/ \E pi \in 1..Len(plan.Phases) : \E si \in 1..Len(plan.Phases[pi].Steps) :
           \E t \in DefectiveTasks : EditSpec(pi, si, t)
    \/ \E pi \in 1..Len(plan.Phases) : \E si \in 1..Len(plan.Phases[pi].Steps) :
           RepairSpec(pi, si)

Spec == Init /\ [][Next]_vars

\* The outer loop invokes executePlan again and again on the status it got
\* back, for as long as a tick has something to do or to report.
LiveSpec == Spec /\ WF_vars(Tick)

(***************************************************************************)
(* What the claims speak of.                                               *)
(***************************************************************************)
\* The last action was a tick: status, trace and result are what it returned.
Ticked == lastAction \in {"tick", "retick"}

\* The cluster client calls of the last tick, by their place in the trace.
ClientCalls == {i \in 1..Len(trace) : trace[i].op \in ClientOps}

PhaseAt(e) == getPhaseFromStatus(e.ph, status)
StepAt(e) == getStepFromStatus(e.stp, status.Phases[PhaseAt(e)])

\* Step si of phase pi received a cluster client call in the last tick.
CalledOn(pi, si) ==
    \E i \in ClientCalls : PhaseAt(trace[i]) = pi /\ StepAt(trace[i]) = si

PhaseCalled(pi) == \E i \in ClientCalls : PhaseAt(trace[i]) = pi

PhaseIds == 1..Len(plan.Phases)
StepIds(pi) == 1..Len(plan.Phases[pi].Steps)

StepStatusOf(st, pi, si) == st.Phases[pi].Steps[si].Status
PhaseStatusOf(st, pi) == st.Phases[pi].Status

\* C1. Serial phase ordering: a step of a Serial phase receives a cluster
\* client call only when every earlier step of the phase is Complete at
\* that moment; after a tick, no step that follows an unfinished step of a
\* Serial phase has been called, and when the tick ran the phase without an
\* error and left a step unfinished, the phase is InProgress.
C1_SerialOrdering ==
    /\ \A i \in ClientCalls :
          LET e == trace[i]
          IN  plan.Phases[PhaseAt(e)].Strategy = Serial
              => \A k \in 1..(StepAt(e) - 1) :
                    StepStatusOf(e.snap, PhaseAt(e), k) = ExecutionComplete
    /\ Ticked =>
          \A pi \in PhaseIds :
              plan.Phases[pi].Strategy = Serial =>
                 \A k \in StepIds(pi) :
                    StepStatusOf(status, pi, k) # ExecutionComplete =>
                       /\ \A j \in StepIds(pi) : j > k => ~CalledOn(pi, j)
                       /\ (PhaseCalled(pi) /\ ~result.err)
                              => PhaseStatusOf(status, pi) = ExecutionInProgress

\* A step after the first of a Serial phase was called in the last tick.
C1_Witness ==
    /\ Ticked
    /\ plan.Phases[1].Strategy = Serial
    /\ CalledOn(1, 2)

\* C2. Phase ordering: every cluster client call is made while every phase
\* declared before the phase of the call is Complete.
C2_PhaseOrdering ==
    \A i \in ClientCalls :
        \A q \in 1..(PhaseAt(trace[i]) - 1) :
            PhaseStatusOf(trace[i].snap, q) = ExecutionComplete

\* The second phase was called in the last tick.
C2_Witness == Ticked /\ PhaseCalled(2)

\* C3. Monotonicity: as long as the plan spec is the one the plan was
\* triggered with, a step, a phase or the plan that is Complete is Complete
\* after every further step of the system.
CompleteStays(old, new) ==
    /\ old.Status = ExecutionComplete => new.Status = ExecutionComplete
    /\ \A pi \in 1..Len(old.Phases) :
          /\ PhaseStatusOf(old, pi) = ExecutionComplete
                 => PhaseStatusOf(new, pi) = ExecutionComplete
          /\ \A si \in 1..Len(old.Phases[pi].Steps) :
                 StepStatusOf(old, pi, si) = ExecutionComplete
                     => StepStatusOf(new, pi, si) = ExecutionComplete

C3_Monotonicity == [][edits' = 0 => CompleteStays(status, status')]_vars

\* A tick that found a Complete step, changed the status and ran on the
\* unedited spec.
C3_Witness ==
    /\ Ticked
    /\ edits = 0
    /\ status # input
    /\ \E pi \in PhaseIds : \E si \in StepIds(pi) :
           StepStatusOf(input, pi, si) = ExecutionComplete

\* C4. Idempotence: a tick that follows a tick, with nothing done to the
\* cluster or the spec in between, returns the status it was given.
C4_Idempotence == lastAction = "retick" => status = input

\* A second tick in a row on a plan that is in progress, with client calls.
C4_Witness ==
    /\ lastAction = "retick"
    /\ status.Status = ExecutionInProgress
    /\ ClientCalls # {}

\* The tick reached phase pi: the Preparer succeeded, the phase was not
\* Complete when the tick started, and every phase before it is Complete.
Reached(pi) ==
    /\ result.prepared = "ok"
    /\ PhaseStatusOf(input, pi) # ExecutionComplete
    /\ \A q \in 1..(pi - 1) : PhaseStatusOf(status, q) = ExecutionComplete

\* A cluster client call of a step before si of phase pi failed in the tick.
FailedBefore(pi, si) ==
    \E i \in ClientCalls :
        /\ trace[i].out = "error"
        /\ PhaseAt(trace[i]) = pi
        /\ StepAt(trace[i]) < si

\* A health check of a resource of the step did not pass in the tick.
ReportedUnhealthy(pi, si) ==
    \E i \in ClientCalls :
        /\ trace[i].op = "health" /\ trace[i].out # "ok"
        /\ PhaseAt(trace[i]) = pi /\ StepAt(trace[i]) = si

\* C5 as stated. Parallel phases: in every tick that reaches a Parallel
\* phase, every step of the phase that is not yet Complete is executed.
C5_EveryStepExecuted ==
    Ticked =>
       \A pi \in PhaseIds :
          (plan.Phases[pi].Strategy = Parallel /\ Reached(pi)) =>
             \A si \in StepIds(pi) :
                StepStatusOf(input, pi, si) # ExecutionComplete => CalledOn(pi, si)

\* C5 as amended. Parallel phases: in every tick that reaches a Parallel
\* phase, every step of the phase that is not yet Complete is executed
\* unless a cluster client call of an earlier step of the phase failed in
\* that tick; when no call fails, each such step ends InProgress if a health
\* check of one of its resources did not pass and Complete otherwise, whatever
\* happened to the steps before it, and the phase is Complete only when
\* every step is.
C5_ParallelAdvances ==
    Ticked =>
       \A pi \in PhaseIds :
          (plan.Phases[pi].Strategy = Parallel /\ Reached(pi)) =>
             /\ \A si \in StepIds(pi) :
                   (StepStatusOf(input, pi, si) # ExecutionComplete
                        /\ ~FailedBefore(pi, si)) => CalledOn(pi, si)
             /\ ~result.err =>
                   /\ \A si \in StepIds(pi) :
                         StepStatusOf(input, pi, si) # ExecutionComplete =>
                            StepStatusOf(status, pi, si) =
                               IF ReportedUnhealthy(pi, si)
                               THEN ExecutionInProgress ELSE ExecutionComplete
                   /\ PhaseStatusOf(status, pi) =
                         IF \A si \in StepIds(pi) :
                               StepStatusOf(status, pi, si) = ExecutionComplete
                         THEN ExecutionComplete ELSE ExecutionInProgress

\* One tick of a Parallel phase: the first step is unhealthy and stays
\* InProgress, the second step went from not Complete to Complete.
C5_Witness ==
    /\ Ticked /\ ~result.err
    /\ plan.Phases[1].Strategy = Parallel
    /\ ~plan.Phases[1].Steps[2].Delete
    /\ ReportedUnhealthy(1, 1)
    /\ StepStatusOf(input, 1, 2) # ExecutionComplete
    /\ StepStatusOf(status, 1, 1) = ExecutionInProgress
    /\ StepStatusOf(status, 1, 2) = ExecutionComplete
    /\ PhaseStatusOf(status, 1) = ExecutionInProgress

\* C6. Terminal plans are left alone: a tick on a plan whose top-level
\* status is Complete or ExecutionFatalError returns the status it was
\* given and no error, and makes no render, Enhancer or client call.
C6_TerminalUntouched ==
    (Ticked /\ input.Status \in {ExecutionComplete, ExecutionFatalError}) =>
        /\ status = input
        /\ ~result.err
        /\ trace = <<>>

\* A tick on a plan that is ExecutionFatalError.
C6_Witness == Ticked /\ input.Status = ExecutionFatalError

\* C7 as stated. A failure of the Preparer sets the top-level status by the
\* fatal flag of the error: ErrorStatus when it is not fatal, and
\* ExecutionFatalError when it is.
C7_ClassifiedByFatalFlag ==
    (Ticked /\ result.err /\ result.prepared # "ok") =>
        status.Status = IF result.fatal THEN ExecutionFatalError ELSE ErrorStatus

\* The defects of the plan spec, read off the spec: the steps that refer to
\* a defective task, in the order of the Preparer's walk.
DefectiveAt(pi, si) ==
    {k \in 1..Len(plan.Phases[pi].Steps[si].Tasks) :
        plan.Phases[pi].Steps[si].Tasks[k] \in DefectiveTasks}

IsFirstDefect(pi, si) ==
    /\ DefectiveAt(pi, si) # {}
    /\ \A qi \in PhaseIds : \A ti \in StepIds(qi) :
          (qi < pi \/ (qi = pi /\ ti < si)) => DefectiveAt(qi, ti) = {}

FirstDefectiveTask(pi, si) ==
    plan.Phases[pi].Steps[si].Tasks[Lowest(DefectiveAt(pi, si))]

\* C8. Missing template is fatal: when the Preparer of a tick on a plan that
\* is not terminal comes to a task whose resource key is not in the
\* template catalog, the tick returns an error, and the top-level status,
\* the phase and the step of that task are ExecutionFatalError.
C8_MissingTemplateFatal ==
    (Ticked /\ input.Status \notin {ExecutionComplete, ExecutionFatalError}) =>
       \A pi \in PhaseIds : \A si \in StepIds(pi) :
          (IsFirstDefect(pi, si) /\ FirstDefectiveTask(pi, si) = "dangling") =>
             /\ result.err
             /\ status.Status = ExecutionFatalError
             /\ PhaseStatusOf(status, pi) = ExecutionFatalError
             /\ StepStatusOf(status, pi, si) = ExecutionFatalError

\* A tick whose Preparer came to the missing template.
C8_Witness ==
    /\ Ticked
    /\ input.Status \notin {ExecutionComplete, ExecutionFatalError}
    /\ \E pi \in PhaseIds : \E si \in StepIds(pi) :
           IsFirstDefect(pi, si) /\ FirstDefectiveTask(pi, si) = "dangling"

\* C9. Fail fast before mutation: in a tick, no render or Enhancer call
\* follows a cluster client call; when there is a client call, every task of
\* every step of every phase has been through the Enhancer; and when a step
\* of any phase has a defect, so that the Preparer fails, there is no
\* client call at all.
C9_FailFast ==
    Ticked =>
        /\ \A i \in ClientCalls : \A j \in 1..Len(trace) :
              j > i => trace[j].op \notin PrepareOps
        /\ ClientCalls # {} =>
              \A pi \in PhaseIds : \A si \in StepIds(pi) :
                 \A k \in 1..Len(plan.Phases[pi].Steps[si].Tasks) :
                    \E j \in 1..Len(trace) :
                       /\ trace[j].op = "enhance" /\ trace[j].out = "ok"
                       /\ trace[j].ph = plan.Phases[pi].Name
                       /\ trace[j].stp = plan.Phases[pi].Steps[si].Name
                       /\ trace[j].res = plan.Phases[pi].Steps[si].Tasks[k]
        /\ (\E pi \in PhaseIds : \E si \in StepIds(pi) : DefectiveAt(pi, si) # {})
              => ClientCalls = {}
        /\ (result.err /\ result.prepared # "ok") => ClientCalls = {}

\* A tick on a plan whose first phase has work to do and whose only defect
\* is in the second phase: the Preparer ran and failed.
C9_Witness ==
    /\ Ticked /\ result.err
    /\ input.Status \notin {ExecutionComplete, ExecutionFatalError}
    /\ PhaseStatusOf(input, 1) # ExecutionComplete
    /\ Len(plan.Phases) > 1
    /\ IsFirstDefect(2, 1)
    /\ trace # <<>>

\* C10. Status consistency: a phase is Complete if and only if all of its
\* steps are Complete, and the plan is Complete if and only if all of its
\* phases are Complete.
C10_StatusConsistency ==
    /\ \A pi \in PhaseIds :
          PhaseStatusOf(status, pi) = ExecutionComplete
              <=> \A si \in StepIds(pi) :
                     StepStatusOf(status, pi, si) = ExecutionComplete
    /\ status.Status = ExecutionComplete
          <=> \A pi \in PhaseIds : PhaseStatusOf(status, pi) = ExecutionComplete

\* After a tick the first phase is Complete and the plan is not.
C10_Witness ==
    /\ Ticked
    /\ PhaseStatusOf(status, 1) = ExecutionComplete
    /\ status.Status # ExecutionComplete

\* C11 as stated. Working copy: a tick does not modify the plan status
\* object the caller passed in; after the tick the caller's object holds
\* what it held before, and it differs from the returned status whenever
\* the tick changed anything.
C11_WorkingCopy ==
    Ticked =>
        /\ caller = input
        /\ caller.Status = input.Status
        /\ status # input => caller # status

\* Two entries of the trace are about the same object of the same step.
SameTarget(e, f) == e.ph = f.ph /\ e.stp = f.stp /\ e.res = f.res

\* The entries of the trace with this operation on the object of entry e.
CallsLike(op, e) ==
    {j \in 1..Len(trace) : trace[j].op = op /\ SameTarget(trace[j], e)}

\* The tick ended at entry i of the trace with the error of that call: the
\* step and its phase are ErrorStatus.
AbortedAt(i) ==
    /\ i = Len(trace)
    /\ result.err
    /\ StepStatusOf(status, PhaseAt(trace[i]), StepAt(trace[i])) = ErrorStatus
    /\ PhaseStatusOf(status, PhaseAt(trace[i])) = ErrorStatus

\* C12. Patch fallback: a strategic merge patch answered with
\* UnsupportedMediaType is followed at once by exactly one merge patch of the
\* same object, whose result decides the outcome (on success the health
\* check of the object follows, on failure the tick ends with the error);
\* after a strategic merge patch that succeeds or fails otherwise there is
\* no further patch of the object in the tick, and the other failure ends
\* the tick with the step's error.
C12_PatchFallback ==
    Ticked =>
       /\ \A i \in 1..Len(trace) :
             trace[i].op = "patch" =>
                /\ CallsLike("patch", trace[i]) = {i}
                /\ trace[i].out = "unsupportedMediaType" =>
                      /\ CallsLike("mergepatch", trace[i]) = {i + 1}
                      /\ trace[i + 1].out = "ok" =>
                            /\ i + 2 <= Len(trace)
                            /\ trace[i + 2].op = "health"
                            /\ SameTarget(trace[i + 2], trace[i])
                      /\ trace[i + 1].out # "ok" => AbortedAt(i + 1)
                /\ trace[i].out = "ok" =>
                      /\ CallsLike("mergepatch", trace[i]) = {}
                      /\ i + 1 <= Len(trace)
                      /\ trace[i + 1].op = "health"
                      /\ SameTarget(trace[i + 1], trace[i])
                /\ trace[i].out = "error" =>
                      /\ CallsLike("mergepatch", trace[i]) = {}
                      /\ AbortedAt(i)
       /\ \A i \in 1..Len(trace) :
             trace[i].op = "mergepatch" =>
                /\ i > 1
                /\ trace[i - 1].op = "patch"
                /\ trace[i - 1].out = "unsupportedMediaType"
                /\ SameTarget(trace[i - 1], trace[i])

\* The strategic merge patch of an existing custom resource was answered
\* with UnsupportedMediaType, the merge patch succeeded and the step became
\* Complete in the tick.
C12_Witness ==
    /\ Ticked
    /\ \E i \in 1..Len(trace) :
          /\ trace[i].op = "patch" /\ trace[i].out = "unsupportedMediaType"
          /\ i < Len(trace)
          /\ trace[i + 1].op = "mergepatch" /\ trace[i + 1].out = "ok"
          /\ StepStatusOf(input, PhaseAt(trace[i]), StepAt(trace[i])) # ExecutionComplete
          /\ StepStatusOf(status, PhaseAt(trace[i]), StepAt(trace[i])) = ExecutionComplete

\* The cluster client calls that can fail: the health oracle is not one.
WriteOrReadOps == {"get", "create", "patch", "mergepatch", "delete"}

\* The entries of a trace at which a cluster client call failed.
FailedCalls(tr) ==
    {i \in 1..Len(tr) : tr[i].op \in WriteOrReadOps /\ tr[i].out = "error"}

\* No node of the status tree is ExecutionFatalError.
NoFatalNode(st) ==
    /\ st.Status # ExecutionFatalError
    /\ \A pi \in 1..Len(st.Phases) :
          /\ PhaseStatusOf(st, pi) # ExecutionFatalError
          /\ \A si \in 1..Len(st.Phases[pi].Steps) :
                StepStatusOf(st, pi, si) # ExecutionFatalError

\* A trace has a cluster client call on the step of entry e.
CallsStepOf(tr, e) ==
    \E j \in 1..Len(tr) :
        tr[j].op \in ClientOps /\ tr[j].ph = e.ph /\ tr[j].stp = e.stp

\* C13. Cluster errors are recoverable and located: a tick in which a
\* cluster client call fails returns an error and a status in which the
\* step of the call and its phase are ErrorStatus and no node is
\* ExecutionFatalError, so that the plan is not terminal and the step counts
\* as work that remains; the tick that follows calls the cluster for that
\* step again.
C13_ClusterErrorsRecoverable ==
    /\ [](Ticked =>
            \A i \in FailedCalls(trace) :
               /\ result.err
               /\ StepStatusOf(status, PhaseAt(trace[i]), StepAt(trace[i])) = ErrorStatus
               /\ PhaseStatusOf(status, PhaseAt(trace[i])) = ErrorStatus
               /\ NoFatalNode(status)
               /\ ~IsTerminal(status.Status)
               /\ isInProgress(StepStatusOf(status, PhaseAt(trace[i]), StepAt(trace[i])))
               /\ isInProgress(PhaseStatusOf(status, PhaseAt(trace[i]))))
    /\ [][(Ticked /\ lastAction' = "retick") =>
            \A i \in FailedCalls(trace) : CallsStepOf(trace', trace[i])]_vars

\* A tick in which a call failed, right after a tick in which a call of the
\* same step had failed.
C13_Witness ==
    /\ lastAction = "retick"
    /\ FailedCalls(trace) # {}
    /\ \E i \in FailedCalls(trace) :
          StepStatusOf(input, PhaseAt(trace[i]), StepAt(trace[i])) = ErrorStatus

\* The status tree of a plan with every node at v.
AllAt(spec, v) ==
    [Name |-> spec.Name,
     Status |-> v,
     Phases |-> [i \in 1..Len(spec.Phases) |->
                   [Name |-> spec.Phases[i].Name,
                    Status |-> v,
                    Steps |-> [j \in 1..Len(spec.Phases[i].Steps) |->
                                 [Name |-> spec.Phases[i].Steps[j].Name,
                                  Status |-> v]]]]]

\* The Preparer of the last tick, if it ran, succeeded.
PreparerSucceeded == result.prepared \in {"none", "skipped", "ok"}

\* Every health check of the last tick reported healthy.
AllReportedHealthy ==
    \A i \in 1..Len(trace) : trace[i].op = "health" => trace[i].out = "ok"

\* The step that is taken is a tick.
TickTaken == lastAction' \in {"tick", "retick"}

\* C14. Progress to completion: when ticks are invoked again and again, the
\* Preparer always succeeds, no cluster client call ever fails and from some
\* point on every health check reports healthy, the top-level status
\* becomes Complete and stays Complete.  For the plan of one phase and one
\* step: the first tick, with the object absent or not healthy, leaves plan,
\* phase and step InProgress, and a tick that finds them InProgress and the
\* object healthy leaves all three Complete.
C14_ProgressToCompletion ==
    /\ ([](PreparerSucceeded /\ FailedCalls(trace) = {}) /\ <>[]AllReportedHealthy)
           => <>[](status.Status = ExecutionComplete)
    /\ [][(/\ TickTaken
            /\ plan = SinglePlan /\ fault = NoFault
            /\ status = AllAt(plan, ExecutionPending)
            /\ obj["deployment.yaml"] # "healthy")
              => status' = AllAt(plan, ExecutionInProgress)]_vars
    /\ [][(/\ TickTaken
            /\ plan = SinglePlan /\ fault = NoFault
            /\ status = AllAt(plan, ExecutionInProgress)
            /\ obj["deployment.yaml"] = "healthy")
              => status' = AllAt(plan, ExecutionComplete)]_vars

\* The plan of one step went from InProgress at every node to Complete at
\* every node in one tick.
C14_Witness ==
    /\ Ticked
    /\ plan = SinglePlan
    /\ input = AllAt(plan, ExecutionInProgress)
    /\ status = AllAt(plan, ExecutionComplete)

\* The objects of a step whose tasks and templates are all in the catalogs,
\* in the order the Preparer emits them.
RECURSIVE ObjectsOfTasks(_, _)
ObjectsOfTasks(tasks, i) ==
    IF i > Len(tasks) THEN <<>>
    ELSE Tasks[tasks[i]].Resources \o ObjectsOfTasks(tasks, i + 1)

ObjectsOf(pi, si) == ObjectsOfTasks(plan.Phases[pi].Steps[si].Tasks, 1)

\* The entries of the trace for step si of phase pi.
EntriesOf(pi, si) ==
    {i \in 1..Len(trace) : PhaseAt(trace[i]) = pi /\ StepAt(trace[i]) = si}

\* The client calls of the last tick on object k of step si of phase pi.
CallsOnObject(pi, si, k) ==
    {i \in EntriesOf(pi, si) \cap ClientCalls : trace[i].res = ObjectsOf(pi, si)[k]}

\* C15. Delete steps: in a tick that executes a step with delete=true, the
\* step's objects receive delete calls only (no get, create, patch or health
\* check); each object receives exactly one, unless the delete of an
\* earlier object of the step failed; a delete answered NotFound is not an
\* error; a delete that fails otherwise ends the tick with the step's
\* error; and when every delete of the tick was answered with success or
\* NotFound the step is Complete.
C15_DeleteSteps ==
    Ticked =>
       \A pi \in PhaseIds : \A si \in StepIds(pi) :
          (plan.Phases[pi].Steps[si].Delete /\ CalledOn(pi, si)) =>
             /\ \A i \in EntriesOf(pi, si) \cap ClientCalls : trace[i].op = "delete"
             /\ \A k \in 1..Len(ObjectsOf(pi, si)) :
                   \/ Cardinality(CallsOnObject(pi, si, k)) = 1
                   \/ /\ CallsOnObject(pi, si, k) = {}
                      /\ \E j \in 1..(k - 1) : \E i \in CallsOnObject(pi, si, j) :
                            trace[i].out = "error"
             /\ \A i \in EntriesOf(pi, si) \cap ClientCalls :
                   /\ trace[i].out \in {"ok", "notFound", "error"}
                   /\ trace[i].out = "error" => AbortedAt(i)
                   /\ trace[i].out = "notFound" =>
                         (i < Len(trace) \/ ~result.err)
             /\ (\A i \in EntriesOf(pi, si) \cap ClientCalls : trace[i].out # "error")
                   => /\ StepStatusOf(status, pi, si) = ExecutionComplete
                      /\ Cardinality(EntriesOf(pi, si) \cap ClientCalls)
                            = Len(ObjectsOf(pi, si))

\* A second tick on a step with delete=true, after a tick in which a delete
\* had failed: one delete is answered NotFound, and the step is Complete.
C15_Witness ==
    /\ Ticked
    /\ \E pi \in PhaseIds : \E si \in StepIds(pi) :
          /\ plan.Phases[pi].Steps[si].Delete
          /\ StepStatusOf(input, pi, si) = ErrorStatus
          /\ StepStatusOf(status, pi, si) = ExecutionComplete
          /\ \E i \in EntriesOf(pi, si) : trace[i].out = "notFound"
          /\ \E i \in EntriesOf(pi, si) : trace[i].out = "ok"

\* The health checks of the last tick, by their place in the trace.
HealthChecks == {i \in 1..Len(trace) : trace[i].op = "health"}

\* C16 as stated. A health check that answers "error" is told apart from
\* one that answers "unhealthy": after "unhealthy" the step is left
\* InProgress and the check itself returns no error, whereas after "error"
\* the tick returns an error and the step and its phase are ErrorStatus.
C16_HealthErrorDistinguished ==
    Ticked =>
       \A i \in HealthChecks :
          /\ (trace[i].out = "unhealthy" /\ ~result.err) =>
                StepStatusOf(status, PhaseAt(trace[i]), StepAt(trace[i]))
                    = ExecutionInProgress
          /\ trace[i].out = "error" =>
                /\ result.err
                /\ StepStatusOf(status, PhaseAt(trace[i]), StepAt(trace[i])) = ErrorStatus
                /\ PhaseStatusOf(status, PhaseAt(trace[i])) = ErrorStatus

\* The client calls of the last tick for step si of phase pi.
StepCalls(pi, si) == EntriesOf(pi, si) \cap ClientCalls

\* No operation on a resource of the step ended with an error.
StepClean(pi, si) == \A i \in StepCalls(pi, si) : trace[i].out # "error"

\* Every health check of the step passed.
StepHealthy(pi, si) ==
    \A i \in StepCalls(pi, si) : trace[i].op = "health" => trace[i].out = "ok"

\* C17. Step outcome: a step that is Pending, InProgress or ErrorStatus when
\* the tick executes it is Complete after the tick if and only if no
\* operation on its resources ended with an error and every health check
\* passed; when no operation ended with an error and a health check did not
\* pass, the step is InProgress, the tick returned no error for this step,
\* and every resource of the step went through its operation and its health
\* check in the tick.
C17_StepOutcome ==
    Ticked =>
       \A pi \in PhaseIds : \A si \in StepIds(pi) :
          CalledOn(pi, si) =>
             /\ isInProgress(StepStatusOf(input, pi, si))
             /\ StepStatusOf(status, pi, si) = ExecutionComplete
                   <=> (StepClean(pi, si) /\ StepHealthy(pi, si))
             /\ (StepClean(pi, si) /\ ~StepHealthy(pi, si)) =>
                   /\ StepStatusOf(status, pi, si) = ExecutionInProgress
                   /\ result.err => Len(trace) \notin StepCalls(pi, si)
                   /\ \A k \in 1..Len(ObjectsOf(pi, si)) :
                         /\ \E i \in CallsOnObject(pi, si, k) : trace[i].op = "get"
                         /\ \E i \in CallsOnObject(pi, si, k) : trace[i].op = "health"

\* The first object of a step was reported unhealthy, the second object of
\* the step was applied and checked after that, and the step is InProgress.
C17_Witness ==
    /\ Ticked
    /\ \E pi \in PhaseIds : \E si \in StepIds(pi) :
          /\ CalledOn(pi, si)
          /\ Len(ObjectsOf(pi, si)) > 1
          /\ StepStatusOf(status, pi, si) = ExecutionInProgress
          /\ \E i \in CallsOnObject(pi, si, 1) : \E j \in CallsOnObject(pi, si, 2) :
                /\ trace[i].op = "health" /\ trace[i].out = "unhealthy"
                /\ trace[j].op = "health" /\ trace[j].out = "ok"
                /\ i < j

\* C18 as stated. The Preparer never takes a node out of Complete: a step or
\* a phase that was Complete when a tick started is Complete in the status
\* the tick returns, also when the Preparer failed in that tick at a step
\* that is Complete or lies in a Complete phase.
C18_PreparerKeepsComplete ==
    Ticked =>
       \A pi \in PhaseIds :
          /\ PhaseStatusOf(input, pi) = ExecutionComplete
                => PhaseStatusOf(status, pi) = ExecutionComplete
          /\ \A si \in StepIds(pi) :
                StepStatusOf(input, pi, si) = ExecutionComplete
                    => StepStatusOf(status, pi, si) = ExecutionComplete

\* C19. An error aborts the tick at the point of failure: a cluster client
\* call that failed (a get other than not-found, a create, a strategic merge
\* patch other than UnsupportedMediaType, the merge patch that follows it, or
\* a delete other than not-found) is the last call of the tick, which returns
\* the error: no call follows for the remaining objects of the step, for
\* later steps of the phase, Serial or Parallel, or for later phases.
C19_ErrorAbortsTick ==
    Ticked =>
       \A i \in FailedCalls(trace) :
          /\ result.err
          /\ \A j \in 1..Len(trace) : j <= i

\* A tick of a plan of two phases whose first phase is Parallel, in which the
\* call that failed was on the first of the two objects of step one.
C19_Witness ==
    /\ Ticked
    /\ Len(plan.Phases) > 1
    /\ plan.Phases[1].Strategy = Parallel
    /\ CalledOn(1, 1)
    /\ Len(ObjectsOf(1, 1)) > 1
    /\ \E i \in FailedCalls(trace) :
          /\ PhaseAt(trace[i]) = 1
          /\ StepAt(trace[i]) = 1
          /\ trace[i].res = ObjectsOf(1, 1)[1]

\* The entries of the last tick on object k of step si of phase pi that are
\* calls of the given operation.
OpsOnObject(pi, si, k, op) ==
    {i \in EntriesOf(pi, si) :
        trace[i].res = ObjectsOf(pi, si)[k] /\ trace[i].op = op}

\* C20. Apply decision: an object of a step without delete=true that the
\* tick handles receives first one get; after a get answered not-found,
\* exactly one create follows at once and no patch; after a get that
\* succeeded, a strategic merge patch follows at once and no create, in
\* every tick that executes the step, whether or not the object already
\* matches; after a get that failed otherwise, no write at all.  An object
\* is left without calls only when an earlier call of the step failed.
C20_ApplyDecision ==
    Ticked =>
       \A pi \in PhaseIds : \A si \in StepIds(pi) :
          (~plan.Phases[pi].Steps[si].Delete /\ CalledOn(pi, si)) =>
             \A k \in 1..Len(ObjectsOf(pi, si)) :
                /\ OpsOnObject(pi, si, k, "delete") = {}
                /\ CallsOnObject(pi, si, k) = {} =>
                      \E i \in EntriesOf(pi, si) \cap FailedCalls(trace) :
                         \E j \in 1..(k - 1) : i \in CallsOnObject(pi, si, j)
                /\ CallsOnObject(pi, si, k) # {} =>
                      \E g \in CallsOnObject(pi, si, k) :
                         /\ OpsOnObject(pi, si, k, "get") = {g}
                         /\ \A i \in CallsOnObject(pi, si, k) : g <= i
                         /\ trace[g].out \in {"notFound", "ok", "error"}
                         /\ trace[g].out = "notFound" =>
                               /\ OpsOnObject(pi, si, k, "create") = {g + 1}
                               /\ OpsOnObject(pi, si, k, "patch") = {}
                               /\ OpsOnObject(pi, si, k, "mergepatch") = {}
                         /\ trace[g].out = "ok" =>
                               /\ OpsOnObject(pi, si, k, "patch") = {g + 1}
                               /\ OpsOnObject(pi, si, k, "create") = {}
                         /\ trace[g].out = "error" =>
                               /\ OpsOnObject(pi, si, k, "create") = {}
                               /\ OpsOnObject(pi, si, k, "patch") = {}
                               /\ OpsOnObject(pi, si, k, "mergepatch") = {}

\* A tick on a step that was InProgress, in which an object that is healthy
\* in the cluster was found and patched again.
C20_Witness ==
    /\ Ticked
    /\ \E pi \in PhaseIds : \E si \in StepIds(pi) :
          /\ ~plan.Phases[pi].Steps[si].Delete
          /\ CalledOn(pi, si)
          /\ StepStatusOf(input, pi, si) = ExecutionInProgress
          /\ \E k \in 1..Len(ObjectsOf(pi, si)) :
                \E g \in OpsOnObject(pi, si, k, "get") :
                   /\ trace[g].out = "ok"
                   /\ trace[g + 1].op = "patch"
                   /\ trace[g + 1].out = "ok"
                   /\ trace[g + 2].op = "health"
                   /\ trace[g + 2].out = "ok"

\* C21 as stated. Health is judged on cluster state: every health check of a
\* tick is asked of the object as it was fetched from the cluster, never of
\* the rendered copy, and a step whose object the tick created is not
\* Complete in the status that tick returns on the word of a check made on
\* a copy that was never read from the cluster.
C21_HealthOnClusterState ==
    Ticked =>
       \A i \in HealthChecks :
          /\ trace[i].held = "fetched"
          /\ (trace[i - 1].op = "create" /\ trace[i].held = "rendered") =>
                StepStatusOf(status, PhaseAt(trace[i]), StepAt(trace[i]))
                    # ExecutionComplete

\* The phases of a status tree that are neither Complete nor Pending.
Frontier(st) ==
    {pi \in 1..Len(st.Phases) :
        PhaseStatusOf(st, pi) \notin {ExecutionComplete, ExecutionPending}}

\* C22. Phase frontier: from a status tree with every node Pending, the
\* status returned by a tick in which the Preparer succeeded has at most one
\* phase that is neither Complete nor Pending; every phase declared before
\* it is Complete, and every phase declared after it is Pending with all of
\* its steps Pending.
C22_PhaseFrontier ==
    (Ticked /\ result.prepared = "ok") =>
       /\ Cardinality(Frontier(status)) <= 1
       /\ \A f \in Frontier(status) :
             /\ \A pi \in 1..(f - 1) : PhaseStatusOf(status, pi) = ExecutionComplete
             /\ \A pi \in (f + 1)..Len(status.Phases) :
                   /\ PhaseStatusOf(status, pi) = ExecutionPending
                   /\ \A si \in 1..Len(status.Phases[pi].Steps) :
                         StepStatusOf(status, pi, si) = ExecutionPending

\* A tick in which the Preparer succeeded and the frontier moved from the
\* first phase, now Complete, to the second.
C22_Witness ==
    /\ Ticked
    /\ result.prepared = "ok"
    /\ Len(plan.Phases) > 1
    /\ Frontier(input) = {1}
    /\ Frontier(status) = {2}
    /\ PhaseStatusOf(status, 1) = ExecutionComplete

====
